---- MODULE Spec2Model ----
(***************************************************************************)
(* Model of merge-me-action: the entry point `main` (event dispatch and    *)
(* top-level failure handler) and the push event handler with its helpers  *)
(* (getReferenceName, getCommitMessageHeadline, getPullRequestInformation, *)
(* tryMerge).  One behaviour of the model is one run of the action on one  *)
(* event.  Strings that the code takes apart (git references, commit       *)
(* messages) are sequences of one-character strings; strings the code only *)
(* compares or passes on (logins, ids, enum values) are TLA+ strings.      *)
(* An optional value is a sequence of length 0 (undefined/null) or 1.      *)
(* RaceSpec adds a second run and the provider's merge endpoint, for the   *)
(* case of two runs racing for one pull request.                           *)
(***************************************************************************)
EXTENDS Integers, Sequences, FiniteSets, TLC

VARIABLES
    eventName,              \* context.eventName
    payload,                \* context.payload: [pusher, ref, commits]
    pc,                     \* position of the run
    calls,                  \* functions of the program entered so far, in order
    fetchCalls,             \* read queries handed to octokit.graphql, in order
    response,               \* what the read query returned (optional)
    pullRequestInformation, \* result of getPullRequestInformation (optional of optional)
    mutationCalls,          \* mutations handed to octokit.graphql, in order
    logs,                   \* entries written through @actions/core info/warning/error
    errors,                 \* errors thrown during the run, in order
    failed,                 \* setFailed has been called
    provider,               \* the provider's pull request and the merges it has accepted
    verdict,                \* the provider's answer to this run's mutation (optional)
    rival                   \* a second, independent run on the same pull request

vars == <<eventName, payload, pc, calls, fetchCalls, response,
          pullRequestInformation, mutationCalls, logs, errors, failed,
          provider, verdict, rival>>

\* the state that only a race of two runs uses
raceVars == <<provider, verdict, rival>>

(***************************************************************************)
(* Bounds of the model.                                                    *)
(***************************************************************************)
MaxRefLen == 2      \* length of the part of a reference after its first 11 characters
MaxMsgLen == 2      \* length of a commit message
MaxReviews == 2     \* length of a review history

None == <<>>
Some(x) == <<x>>

RECURSIVE SeqsUpTo(_, _)
SeqsUpTo(S, n) ==
    IF n = 0 THEN {<<>>}
    ELSE LET shorter == SeqsUpTo(S, n - 1)
         IN  shorter \cup {Append(s, c) : s \in {t \in shorter : Len(t) = n - 1}, c \in S}

(***************************************************************************)
(* Inputs: configuration, event kinds, payloads, provider responses.       *)
(***************************************************************************)
GITHUB_LOGIN == "dependabot"
Logins == {GITHUB_LOGIN, "octocat"}

EventNames == {"check_suite", "pull_request", "push", "issue_comment"}

\* the characters `.` does not match: LF, CR, and U+2028 LINE SEPARATOR, which
\* unlike LF and CR may occur in a branch name (U+2029 is handled like U+2028)
LineSeparator == "U+2028"
LineTerminators == {"\n", "\r", LineSeparator}
RefPrefix == <<"r", "e", "f", "s", "/", "h", "e", "a", "d", "s", "/">>
TagPrefix == <<"r", "e", "f", "s", "/", "t", "a", "g", "s", "/">>

RefStrings ==
    {RefPrefix \o s : s \in SeqsUpTo({"a", "\n"}, MaxRefLen)}
    \cup {<<>>, SubSeq(RefPrefix, 1, Len(RefPrefix) - 1),
          TagPrefix \o <<"a">>, <<"x">> \o RefPrefix \o <<"a">>,
          RefPrefix \o <<"a", LineSeparator, "a">>}

MessageStrings ==
    SeqsUpTo({"a", "\n"}, MaxMsgLen) \cup {<<"\r">>, <<"a", "\r", "a">>}

\* commits of a push payload: none, one whose message is missing, or one with a message
CommitLists ==
    {<<>>, <<[message |-> None]>>} \cup {<<[message |-> Some(m)]>> : m \in MessageStrings}

PushPayloads ==
    [pusher  : {None} \cup {Some([name |-> l]) : l \in Logins},
     ref     : {None} \cup {Some(r) : r \in RefStrings},
     commits : CommitLists]

\* the payload of an event that is not a push carries none of the push fields
OtherPayload == [pusher |-> None, ref |-> None, commits |-> <<>>]

MergeableStates == {"CONFLICTING", "MERGEABLE", "UNKNOWN"}
PullRequestStates == {"CLOSED", "MERGED", "OPEN"}
\* the review states the model's histories draw from: the approved one and two
\* of the four others (DISMISSED and PENDING are handled like COMMENTED)
ReviewStates == {"APPROVED", "CHANGES_REQUESTED", "COMMENTED"}
PullRequestIds == {"PR_1", "PR_2"}

\* review edges in submission order, newest last
ReviewHistories == SeqsUpTo(ReviewStates, MaxReviews)

PullRequestNodes ==
    [id : PullRequestIds, mergeable : MergeableStates, merged : BOOLEAN,
     reviews : ReviewHistories, state : PullRequestStates]

\* outcome of the read query: a transport/query fault, a null result, or a
\* result with at most one matching pull request
Responses ==
    {[kind |-> "fault", nodes |-> <<>>], [kind |-> "null", nodes |-> <<>>],
     [kind |-> "data", nodes |-> <<>>]}
    \cup {[kind |-> "data", nodes |-> <<n>>] : n \in PullRequestNodes}

(***************************************************************************)
(* Pure helpers of the push handler.  A result that may throw is a record  *)
(* [ok, value]: ok = FALSE stands for a thrown TypeError.                  *)
(***************************************************************************)
Threw == [ok |-> FALSE, value |-> None]
Returned(v) == [ok |-> TRUE, value |-> v]

\* the text `.*` consumes at the start of s: `.` matches no line terminator
DotStar(s) ==
    LET k == CHOOSE k \in 0..Len(s) :
                 /\ \A i \in 1..k : s[i] \notin LineTerminators
                 /\ k = Len(s) \/ s[k + 1] \in LineTerminators
    IN  SubSeq(s, 1, k)

\* s.match(/^refs\/heads\/(?<name>.*)$/u): the group `name`, or None for null
SHORT_REFERENCE_MATCHER(s) ==
    LET n == Len(RefPrefix)
        rest == SubSeq(s, n + 1, Len(s))
    IN  IF /\ Len(s) >= n
           /\ SubSeq(s, 1, n) = RefPrefix
           /\ DotStar(rest) = rest
        THEN Some(rest)
        ELSE None

\* mutant: the group is written with [\s\S]* and takes the whole message
COMMIT_HEADLINE_MATCHER_dotAll(s) == Some(s)

\* mutant: the group also takes the line terminator that ends the first line
COMMIT_HEADLINE_MATCHER_keepBreak(s) ==
    Some(SubSeq(s, 1, IF DotStar(s) = s THEN Len(s) ELSE Len(DotStar(s)) + 1))

\* s.match(/^(?<commitHeadline>.*)[\s\S]*$/u): the group `commitHeadline`
COMMIT_HEADLINE_MATCHER(s) == Some(DotStar(s))

getReferenceName(p) ==
    IF p.ref = None THEN Threw
    ELSE LET m == SHORT_REFERENCE_MATCHER(p.ref[1])
         IN  IF m = None THEN Threw ELSE Returned(m[1])

\* mutant: a missing commit or message gives an empty headline instead of throwing
getCommitMessageHeadline_lenient(p) ==
    IF Len(p.commits) = 0 THEN Returned(<<>>)
    ELSE IF p.commits[1].message = None THEN Returned(<<>>)
    ELSE Returned(COMMIT_HEADLINE_MATCHER(p.commits[1].message[1])[1])

getCommitMessageHeadline(p) ==
    IF Len(p.commits) = 0 THEN Threw
    ELSE IF p.commits[1].message = None THEN Threw
    ELSE Returned(COMMIT_HEADLINE_MATCHER(p.commits[1].message[1])[1])

\* util.mutationSelector: merge commit for an approved review, squash otherwise
mutationSelector(reviewEdge) ==
    IF reviewEdge # None /\ reviewEdge[1] = "APPROVED" THEN "mergeCommit" ELSE "squash"

\* mutant: the null check of the result is missing, reading it throws
getPullRequestInformation_noNullCheck(r) ==
    IF r.kind \in {"fault", "null"} THEN Threw
    ELSE IF Len(r.nodes) = 0 THEN Returned(None)
    ELSE LET node == r.nodes[1]
         IN  Returned(Some([mergeableState   |-> node.mergeable,
                            merged           |-> node.merged,
                            pullRequestId    |-> node.id,
                            pullRequestState |-> node.state,
                            reviewEdges      |-> node.reviews]))

\* the decoding of the read query's result; ok = FALSE when the query threw
getPullRequestInformation(r) ==
    IF r.kind = "fault" THEN Threw
    ELSE IF r.kind = "null" \/ Len(r.nodes) = 0 THEN Returned(None)
    ELSE LET node == r.nodes[1]
         IN  Returned(Some([mergeableState   |-> node.mergeable,
                            merged           |-> node.merged,
                            pullRequestId    |-> node.id,
                            pullRequestState |-> node.state,
                            reviewEdges      |-> node.reviews]))

LogEntry(level, by, msg, names) ==
    [level |-> level, by |-> by, msg |-> msg, names |-> names]

\* reviewEdges[0]
FirstReviewEdge(reviewEdges) ==
    IF Len(reviewEdges) = 0 THEN None ELSE Some(reviewEdges[1])

\* mutant: the merged flag is not looked at
tryMerge_noMergedCheck(info, commitMessageHeadline) ==
    IF info.mergeableState # "MERGEABLE"
    THEN [log |-> Some(LogEntry("info", "tryMerge", "not in a mergeable state",
                                {info.mergeableState})),
          mutation |-> None]
    ELSE IF info.pullRequestState # "OPEN"
    THEN [log |-> Some(LogEntry("info", "tryMerge", "not open",
                                {info.pullRequestState})),
          mutation |-> None]
    ELSE [log |-> None,
          mutation |-> Some([mutation       |-> mutationSelector(FirstReviewEdge(info.reviewEdges)),
                             commitHeadline |-> commitMessageHeadline,
                             pullRequestId  |-> info.pullRequestId])]

\* mutant: the merged flag is looked at before the mergeable state
tryMerge_mergedFirst(info, commitMessageHeadline) ==
    IF info.merged
    THEN [log |-> Some(LogEntry("info", "tryMerge", "already merged", {})),
          mutation |-> None]
    ELSE IF info.mergeableState # "MERGEABLE"
    THEN [log |-> Some(LogEntry("info", "tryMerge", "not in a mergeable state",
                                {info.mergeableState})),
          mutation |-> None]
    ELSE IF info.pullRequestState # "OPEN"
    THEN [log |-> Some(LogEntry("info", "tryMerge", "not open",
                                {info.pullRequestState})),
          mutation |-> None]
    ELSE [log |-> None,
          mutation |-> Some([mutation       |-> mutationSelector(FirstReviewEdge(info.reviewEdges)),
                             commitHeadline |-> commitMessageHeadline,
                             pullRequestId  |-> info.pullRequestId])]

\* mutant: the open state is looked at before the merged flag
tryMerge_openFirst(info, commitMessageHeadline) ==
    IF info.mergeableState # "MERGEABLE"
    THEN [log |-> Some(LogEntry("info", "tryMerge", "not in a mergeable state",
                                {info.mergeableState})),
          mutation |-> None]
    ELSE IF info.pullRequestState # "OPEN"
    THEN [log |-> Some(LogEntry("info", "tryMerge", "not open",
                                {info.pullRequestState})),
          mutation |-> None]
    ELSE IF info.merged
    THEN [log |-> Some(LogEntry("info", "tryMerge", "already merged", {})),
          mutation |-> None]
    ELSE [log |-> None,
          mutation |-> Some([mutation       |-> mutationSelector(FirstReviewEdge(info.reviewEdges)),
                             commitHeadline |-> commitMessageHeadline,
                             pullRequestId  |-> info.pullRequestId])]

\* tryMerge up to its await: the log entry it writes or the mutation it issues
tryMerge(info, commitMessageHeadline) ==
    IF info.mergeableState # "MERGEABLE"
    THEN [log |-> Some(LogEntry("info", "tryMerge", "not in a mergeable state",
                                {info.mergeableState})),
          mutation |-> None]
    ELSE IF info.merged
    THEN [log |-> Some(LogEntry("info", "tryMerge", "already merged", {})),
          mutation |-> None]
    ELSE IF info.pullRequestState # "OPEN"
    THEN [log |-> Some(LogEntry("info", "tryMerge", "not open",
                                {info.pullRequestState})),
          mutation |-> None]
    ELSE [log |-> None,
          mutation |-> Some([mutation       |-> mutationSelector(FirstReviewEdge(info.reviewEdges)),
                             commitHeadline |-> commitMessageHeadline,
                             pullRequestId  |-> info.pullRequestId])]

(***************************************************************************)
(* The run.                                                                *)
(***************************************************************************)
\* a single run is not answered by a modelled provider and has no rival
NoProvider == [pr |-> None, merges |-> 0]
NoRival == [pc |-> "absent", info |-> None, mutationCalls |-> <<>>, logs |-> <<>>,
            errors |-> <<>>, failed |-> FALSE, verdict |-> None]

Init ==
    /\ eventName \in EventNames
    /\ payload \in (IF eventName = "push" THEN PushPayloads ELSE {OtherPayload})
    /\ pc = "main"
    /\ calls = <<>>
    /\ fetchCalls = <<>>
    /\ response = None
    /\ pullRequestInformation = None
    /\ mutationCalls = <<>>
    /\ logs = <<>>
    /\ errors = <<>>
    /\ failed = FALSE
    /\ provider = NoProvider
    /\ verdict = None
    /\ rival = NoRival

\* mutant: the push case falls into the pull_request case
Dispatch_pushAsPullRequest(name) ==
    CASE name = "check_suite"  -> Some("checkSuiteHandle")
      [] name = "pull_request" -> Some("pullRequestHandle")
      [] name = "push"         -> Some("pullRequestHandle")
      [] OTHER                 -> None

\* the handler that main's switch selects for an event kind, None for the default case
Dispatch(name) ==
    CASE name = "check_suite"  -> Some("checkSuiteHandle")
      [] name = "pull_request" -> Some("pullRequestHandle")
      [] name = "push"         -> Some("pushHandle")
      [] OTHER                 -> None

\* main: the startup log, then the switch on the event kind
Main ==
    /\ pc = "main"
    /\ LET enabled == LogEntry("info", "main", "automatic merges enabled", {GITHUB_LOGIN})
           handler == Dispatch(eventName)
       IN  IF handler = None
           THEN /\ logs' = logs \o <<enabled,
                                     LogEntry("warning", "main", "unknown event", {eventName})>>
                /\ pc' = "done"
                /\ calls' = Append(calls, "main")
           ELSE /\ logs' = Append(logs, enabled)
                /\ pc' = handler[1]
                /\ calls' = calls \o <<"main", handler[1]>>
    /\ UNCHANGED <<raceVars, eventName, payload, fetchCalls, response, pullRequestInformation,
                   mutationCalls, errors, failed>>

\* the handler main selected
Handler == calls[2]

\* mutant: the comparison is inverted
NotCreatedBy_inverted(pusher, gitHubLogin) == pusher.name = gitHubLogin

\* pushHandle line 124: the pusher is not the configured login
NotCreatedBy(pusher, gitHubLogin) == pusher.name # gitHubLogin

\* mutant: the catch block throws the error on instead of logging it
Catch_rethrow(error) ==
    /\ errors' = Append(errors, error)
    /\ logs' = logs
    /\ pc' = "rejected"

\* the catch block of a handler: the error is logged and the handler returns
Catch(error) ==
    /\ errors' = Append(errors, error)
    /\ logs' = Append(logs, LogEntry("error", Handler, error.kind, {}))
    /\ pc' = "done"

\* pushHandle up to its first await: the login gate, then (inside the try
\* block) the reference name and the read query
PushHandleStart ==
    /\ pc = "pushHandle"
    /\ IF payload.pusher = None
       THEN \* reading .name of undefined throws before the try block is entered
            /\ errors' = Append(errors, [kind |-> "TypeError", from |-> "pushHandle"])
            /\ pc' = "rejected"
            /\ UNCHANGED <<calls, fetchCalls, logs>>
       ELSE IF NotCreatedBy(payload.pusher[1], GITHUB_LOGIN)
       THEN /\ logs' = Append(logs, LogEntry("info", "pushHandle", "not created by",
                                             {GITHUB_LOGIN}))
            /\ pc' = "done"
            /\ UNCHANGED <<calls, fetchCalls, errors>>
       ELSE LET name == getReferenceName(payload)
            IN  /\ IF name.ok
                   THEN /\ calls' = calls \o <<"getReferenceName", "getPullRequestInformation">>
                        /\ fetchCalls' = Append(fetchCalls, [referenceName |-> Some(name.value)])
                        /\ pc' = "awaitFetch"
                        /\ UNCHANGED <<logs, errors>>
                   ELSE /\ calls' = Append(calls, "getReferenceName")
                        /\ Catch([kind |-> "TypeError", from |-> "getReferenceName"])
                        /\ UNCHANGED fetchCalls
    /\ UNCHANGED <<raceVars, eventName, payload, response, pullRequestInformation, mutationCalls, failed>>

\* checkSuiteHandle and pullRequestHandle up to their first await: the read
\* query for the pull request of the event, inside the failure boundary
OtherHandleStart ==
    /\ pc \in {"checkSuiteHandle", "pullRequestHandle"}
    /\ calls' = Append(calls, "getPullRequestInformation")
    /\ fetchCalls' = Append(fetchCalls, [referenceName |-> None])
    /\ pc' = "awaitFetch"
    /\ UNCHANGED <<raceVars, eventName, payload, response, pullRequestInformation, mutationCalls,
                   logs, errors, failed>>

\* the commit headline the handler passes to tryMerge: the push handler parses
\* the payload, the other handlers take it from the pull request
ExternalHeadline == <<"t">>
HeadlineFor(handler, p) ==
    IF handler = "pushHandle" THEN getCommitMessageHeadline(p) ELSE Returned(ExternalHeadline)

\* the rest of the handler once the read query has settled: decode the result,
\* then warn (not found) or log the information, take the commit headline and
\* run tryMerge up to its await
FetchReturn ==
    /\ pc = "awaitFetch"
    /\ \E r \in Responses :
         LET res == getPullRequestInformation(r)
         IN  /\ response' = Some(r)
             /\ IF ~res.ok
                THEN /\ Catch([kind |-> "FetchError", from |-> "getPullRequestInformation"])
                     /\ UNCHANGED <<calls, pullRequestInformation, mutationCalls>>
                ELSE IF res.value = None
                THEN /\ pullRequestInformation' = Some(None)
                     /\ logs' = Append(logs, LogEntry("warning", Handler,
                                                      "unable to fetch", {}))
                     /\ pc' = "done"
                     /\ UNCHANGED <<calls, mutationCalls, errors>>
                ELSE LET info == res.value[1]
                         found == LogEntry("info", Handler, "found pull request information",
                                           {info.mergeableState, info.pullRequestState,
                                            info.pullRequestId})
                         headline == HeadlineFor(Handler, payload)
                     IN  /\ pullRequestInformation' = Some(Some(info))
                         /\ IF ~headline.ok
                            THEN /\ calls' = Append(calls, "getCommitMessageHeadline")
                                 /\ errors' = Append(errors, [kind |-> "TypeError",
                                                 from |-> "getCommitMessageHeadline"])
                                 /\ logs' = logs \o <<found,
                                                 LogEntry("error", Handler, "TypeError", {})>>
                                 /\ pc' = "done"
                                 /\ UNCHANGED mutationCalls
                            ELSE LET out == tryMerge(info, headline.value)
                                 IN  /\ calls' = calls \o <<"getCommitMessageHeadline", "tryMerge">>
                                     /\ logs' = logs \o <<found>> \o out.log
                                     /\ mutationCalls' = mutationCalls \o out.mutation
                                     /\ pc' = IF out.mutation = None THEN "done"
                                              ELSE "awaitMutation"
                                     /\ UNCHANGED errors
    /\ UNCHANGED <<raceVars, eventName, payload, fetchCalls, failed>>

\* mutant: a rejected mutation is issued once more before giving up
MutationReturn_retry ==
    /\ pc = "awaitMutation"
    /\ \E accepted \in BOOLEAN :
         IF accepted
         THEN /\ pc' = "done"
              /\ UNCHANGED <<logs, errors, mutationCalls>>
         ELSE /\ errors' = Append(errors, [kind |-> "MutationError", from |-> "tryMerge"])
              /\ IF Len(errors) = 0
                 THEN /\ mutationCalls' = Append(mutationCalls, mutationCalls[1])
                      /\ pc' = "awaitMutation"
                      /\ UNCHANGED logs
                 ELSE /\ logs' = Append(logs, LogEntry("error", calls[2], "MutationError", {}))
                      /\ pc' = "done"
                      /\ UNCHANGED mutationCalls
    /\ UNCHANGED <<raceVars, eventName, payload, calls, fetchCalls, response, pullRequestInformation,
                   failed>>

\* the merge mutation settles: tryMerge returns, or its rejection is caught
MutationReturn ==
    /\ pc = "awaitMutation"
    /\ \E accepted \in BOOLEAN :
         IF accepted
         THEN /\ pc' = "done"
              /\ UNCHANGED <<logs, errors>>
         ELSE Catch([kind |-> "MutationError", from |-> "tryMerge"])
    /\ UNCHANGED <<raceVars, eventName, payload, calls, fetchCalls, response, pullRequestInformation,
                   mutationCalls, failed>>

\* mutant: the top-level handler does not mark the run failed
TopLevelCatch_silent ==
    /\ pc = "rejected"
    /\ pc' = "done"
    /\ UNCHANGED <<raceVars, eventName, payload, calls, fetchCalls, response, pullRequestInformation,
                   mutationCalls, logs, errors, failed>>

\* main().catch: an error that escaped the handler marks the run failed
TopLevelCatch ==
    /\ pc = "rejected"
    /\ failed' = TRUE
    /\ pc' = "done"
    /\ UNCHANGED <<raceVars, eventName, payload, calls, fetchCalls, response, pullRequestInformation,
                   mutationCalls, logs, errors>>

Next ==
    \/ Main
    \/ PushHandleStart
    \/ OtherHandleStart
    \/ FetchReturn
    \/ MutationReturn
    \/ TopLevelCatch

Spec == Init /\ [][Next]_vars

\* the event loop runs every continuation that is ready
FairSpec == Spec /\ WF_vars(Next)

(***************************************************************************)
(* Vocabulary of the properties.                                           *)
(***************************************************************************)
Range(seq) == {seq[i] : i \in DOMAIN seq}
Entries(level, sources) ==
    {i \in DOMAIN logs : logs[i].level = level /\ logs[i].by \in sources}
HandlerNames == {"checkSuiteHandle", "pullRequestHandle", "pushHandle"}
\* the log sources of a handler invocation: the handler and what it calls
Invocation == HandlerNames \cup {"tryMerge"}
Found == pullRequestInformation # None /\ pullRequestInformation[1] # None
Info == pullRequestInformation[1][1]
Eligible(info) ==
    info.mergeableState = "MERGEABLE" /\ ~info.merged /\ info.pullRequestState = "OPEN"
TryMergeRan == "tryMerge" \in Range(calls)
PushByLogin ==
    /\ eventName = "push"
    /\ payload.pusher # None
    /\ payload.pusher[1].name = GITHUB_LOGIN
\* the text of a message before its first line break
FirstLine(m) ==
    LET breaks == {i \in DOMAIN m : m[i] \in {"\n", "\r"}}
    IN  IF breaks = {} THEN m
        ELSE SubSeq(m, 1, (CHOOSE i \in breaks : \A j \in breaks : i <= j) - 1)

(***************************************************************************)
(* C1: tryMerge issues no mutation when the pull request is not MERGEABLE, *)
(* or is merged, or is not OPEN, whatever the other fields and the review  *)
(* history are; all it does then is write one log entry.                   *)
(***************************************************************************)
C1_NoMutationUnlessEligible ==
    (TryMergeRan /\ ~Eligible(Info)) =>
        /\ mutationCalls = <<>>
        /\ Cardinality({i \in DOMAIN logs : logs[i].by = "tryMerge"}) = 1
        /\ logs[Len(logs)].by = "tryMerge"
        /\ logs[Len(logs)].level = "info"
        /\ errors = <<>>
        /\ ~failed
        /\ pc = "done"

C1_Witness ==
    /\ TryMergeRan
    /\ Info.mergeableState = "MERGEABLE"
    /\ Info.merged
    /\ Info.pullRequestState = "OPEN"
    /\ Len(Info.reviewEdges) = 2
    /\ mutationCalls = <<>>

(***************************************************************************)
(* C2: for a MERGEABLE, unmerged, OPEN pull request tryMerge issues        *)
(* exactly one mutation, with the fetched pull request id and the commit   *)
(* headline of the push payload; for a push by the configured login with   *)
(* the single review APPROVED it is the merge-commit mutation.             *)
(***************************************************************************)
C2_OneMutationWhenEligible ==
    (TryMergeRan /\ Eligible(Info)) =>
        /\ Len(mutationCalls) = 1
        /\ mutationCalls[1].pullRequestId = Info.pullRequestId
        /\ eventName = "push" =>
               mutationCalls[1].commitHeadline = FirstLine(payload.commits[1].message[1])
        /\ (PushByLogin /\ Info.reviewEdges = <<"APPROVED">>) =>
               mutationCalls[1].mutation = "mergeCommit"

C2_Witness ==
    /\ PushByLogin
    /\ TryMergeRan
    /\ Eligible(Info)
    /\ Info.reviewEdges = <<"APPROVED">>
    /\ Info.pullRequestId = "PR_2"
    /\ payload.commits[1].message[1] = <<"a", "\n">>
    /\ mutationCalls = <<[mutation |-> "mergeCommit", commitHeadline |-> <<"a">>,
                          pullRequestId |-> "PR_2"]>>

(***************************************************************************)
(* C3: the merge strategy comes from the most recent review, the last      *)
(* element of reviewEdges: merge commit if it is APPROVED, squash          *)
(* otherwise and for an empty history.                                     *)
(***************************************************************************)
C3_StrategyFromLatestReview ==
    mutationCalls # <<>> =>
        LET edges == Info.reviewEdges
        IN  mutationCalls[1].mutation =
                IF edges # <<>> /\ edges[Len(edges)] = "APPROVED"
                THEN "mergeCommit" ELSE "squash"

(***************************************************************************)
(* C4: a push whose pusher is not the configured login makes the push      *)
(* handler issue no read query and no mutation and write exactly one log   *)
(* entry, at info level, whatever the rest of the payload is.              *)
(***************************************************************************)
PushByOther ==
    /\ eventName = "push"
    /\ payload.pusher # None
    /\ payload.pusher[1].name # GITHUB_LOGIN

C4_OtherPusherIsSkipped ==
    (PushByOther /\ pc \notin {"main", "pushHandle"}) =>
        /\ fetchCalls = <<>>
        /\ mutationCalls = <<>>
        /\ {i \in DOMAIN logs : logs[i].by \in Invocation} = Entries("info", {"pushHandle"})
        /\ Cardinality(Entries("info", {"pushHandle"})) = 1
        /\ errors = <<>>
        /\ pc = "done"

C4_Witness ==
    /\ PushByOther
    /\ pc = "done"
    /\ payload.ref = Some(RefPrefix \o <<"a">>)
    /\ payload.commits # <<>>
    /\ Cardinality(Entries("info", {"pushHandle"})) = 1

(***************************************************************************)
(* C5: a null result of the read query, or one with no matching pull       *)
(* request, is "not found" and no error: the push handler then issues no   *)
(* mutation, writes exactly one warning and no error entry, and ends.      *)
(***************************************************************************)
NothingMatched ==
    /\ response # None
    /\ response[1].kind = "null" \/ (response[1].kind = "data" /\ response[1].nodes = <<>>)

C5_NotFoundIsWarnedOnly ==
    (eventName = "push" /\ NothingMatched) =>
        /\ pullRequestInformation = Some(None)
        /\ errors = <<>>
        /\ mutationCalls = <<>>
        /\ Cardinality(Entries("warning", Invocation)) = 1
        /\ Entries("error", Invocation) = {}
        /\ ~TryMergeRan
        /\ ~failed
        /\ pc = "done"

C5_Witness ==
    /\ eventName = "push"
    /\ response = Some([kind |-> "null", nodes |-> <<>>])
    /\ pullRequestInformation = Some(None)
    /\ logs[Len(logs)].level = "warning"
    /\ pc = "done"

(***************************************************************************)
(* C6 as stated: a push by the configured login whose pull request is      *)
(* CONFLICTING issues no mutation and writes exactly one info entry, which *)
(* names the state CONFLICTING.                                            *)
(***************************************************************************)
Conflicting == PushByLogin /\ Found /\ Info.mergeableState = "CONFLICTING"

C6_OneInfoLogOnConflict ==
    (Conflicting /\ pc = "done") =>
        /\ mutationCalls = <<>>
        /\ Cardinality(Entries("info", Invocation)) = 1
        /\ \A i \in Entries("info", Invocation) : "CONFLICTING" \in logs[i].names

(***************************************************************************)
(* C6 as amended: such a push issues no mutation; the handler writes one   *)
(* info entry reporting the fetched pull request information and then, if  *)
(* the first commit's message can be read, exactly one further info entry, *)
(* written by tryMerge, which names the state CONFLICTING; if it cannot be *)
(* read, one error entry instead.                                          *)
(***************************************************************************)
C6_ConflictIsReportedAfterFound ==
    (Conflicting /\ pc = "done") =>
        /\ mutationCalls = <<>>
        /\ Cardinality(Entries("info", {"pushHandle"})) = 1
        /\ \A i \in Entries("info", {"pushHandle"}) :
               logs[i].msg = "found pull request information"
        /\ IF payload.commits # <<>> /\ payload.commits[1].message # None
           THEN /\ Cardinality(Entries("info", {"tryMerge"})) = 1
                /\ logs[Len(logs)] = LogEntry("info", "tryMerge",
                                              "not in a mergeable state", {"CONFLICTING"})
                /\ Entries("error", Invocation) = {}
           ELSE /\ Entries("info", {"tryMerge"}) = {}
                /\ Cardinality(Entries("error", Invocation)) = 1

C6_Witness ==
    /\ Conflicting
    /\ pc = "done"
    /\ Info.merged
    /\ Info.pullRequestState = "MERGED"
    /\ Cardinality(Entries("info", Invocation)) = 2
    /\ "CONFLICTING" \in logs[Len(logs)].names

(***************************************************************************)
(* C7: the push handler never lets an error reach its caller: every error  *)
(* raised during its run (reference or commit message that cannot be       *)
(* parsed, failed read query, failed mutation, malformed payload) is       *)
(* caught and logged once at error level, and the run is not marked failed.*)
(***************************************************************************)
C7_PushHandlerSwallowsEveryError ==
    eventName = "push" =>
        /\ pc # "rejected"
        /\ ~failed
        /\ pc = "done" => Cardinality(Entries("error", Invocation)) = Len(errors)

(***************************************************************************)
(* C8: in one invocation of the push handler at most one read query is     *)
(* issued; a mutation is issued only once that query has returned a pull   *)
(* request; at most one mutation is issued; after an error no call is      *)
(* issued again; and the invocation terminates.                            *)
(***************************************************************************)
C8_CallsInOrder ==
    eventName = "push" =>
        /\ Len(fetchCalls) <= 1
        /\ Len(mutationCalls) <= 1
        /\ mutationCalls # <<>> => (Len(fetchCalls) = 1 /\ response # None /\ Found)
        /\ errors # <<>> => pc \in {"done", "rejected"}

C8_NoRetry ==
    (eventName = "push" /\ (errors # <<>> \/ pc = "done")) =>
        (fetchCalls' = fetchCalls /\ mutationCalls' = mutationCalls)

C8_SequencedBoundedTerminating ==
    /\ []C8_CallsInOrder
    /\ [][C8_NoRetry]_vars
    /\ <>(pc = "done")

C8_Witness ==
    /\ eventName = "push"
    /\ pc = "done"
    /\ Len(fetchCalls) = 1
    /\ Len(mutationCalls) = 1
    /\ errors = <<[kind |-> "MutationError", from |-> "tryMerge"]>>

(***************************************************************************)
(* C9: main invokes exactly one handler, the one of the event kind, for    *)
(* check_suite, pull_request and push; for any other kind it invokes none, *)
(* no read query and no mutation is issued, the unknown kind is logged and *)
(* the run is not marked failed.                                           *)
(***************************************************************************)
HandlerOf(name) ==
    [check_suite |-> "checkSuiteHandle", pull_request |-> "pullRequestHandle",
     push |-> "pushHandle"][name]

C9_OneMatchingHandler ==
    pc # "main" =>
        IF eventName \in {"check_suite", "pull_request", "push"}
        THEN /\ {i \in DOMAIN calls : calls[i] \in HandlerNames} = {2}
             /\ calls[2] = HandlerOf(eventName)
        ELSE /\ Range(calls) \cap HandlerNames = {}
             /\ fetchCalls = <<>>
             /\ mutationCalls = <<>>
             /\ \E i \in Entries("warning", {"main"}) : eventName \in logs[i].names
             /\ ~failed
             /\ pc = "done"

C9_Witness ==
    /\ eventName = "push"
    /\ pc = "done"
    /\ Len(calls) >= 2
    /\ calls[2] = "pushHandle"
    /\ Len(mutationCalls) = 1

(***************************************************************************)
(* C10: the run is marked failed exactly when an error escaped the         *)
(* selected handler; a run that merged, skipped, found no pull request,    *)
(* caught its error in the handler, or saw an unknown event ends           *)
(* successfully.                                                           *)
(***************************************************************************)
\* an error was thrown that no handler caught and logged
Escaped == Len(errors) > Cardinality(Entries("error", Invocation))

C10_FailedIffEscaped ==
    /\ failed => Escaped
    /\ pc = "done" =>
        /\ failed <=> Escaped
        /\ ( \/ mutationCalls # <<>>
             \/ Entries("info", {"tryMerge", "pushHandle"}) # {}
             \/ pullRequestInformation = Some(None)
             \/ Entries("error", Invocation) # {}
             \/ Dispatch(eventName) = None ) => ~failed

C10_Witness ==
    /\ pc = "done"
    /\ failed
    /\ Escaped
    /\ eventName = "push"

(***************************************************************************)
(* C11: a reference that starts with refs/heads/ is parsed to exactly the  *)
(* text after that prefix, which is what the read query is issued for; any *)
(* other reference makes the parse fail, and the invocation then ends      *)
(* without a read query or a mutation.                                     *)
(***************************************************************************)
StartsWithRefsHeads(ref) ==
    /\ Len(ref) >= 11
    /\ \A i \in 1..11 : ref[i] = <<"r", "e", "f", "s", "/", "h", "e", "a", "d", "s", "/">>[i]

C11_PrefixedReferenceGivesSuffix ==
    (PushByLogin /\ pc \notin {"main", "pushHandle"}) =>
        IF payload.ref # None /\ StartsWithRefsHeads(payload.ref[1])
        THEN /\ Len(fetchCalls) = 1
             /\ fetchCalls[1].referenceName =
                    Some([i \in 1..(Len(payload.ref[1]) - 11) |-> payload.ref[1][i + 11]])
        ELSE /\ fetchCalls = <<>>
             /\ mutationCalls = <<>>
             /\ errors = <<[kind |-> "TypeError", from |-> "getReferenceName"]>>
             /\ pc = "done"

SkipReasons == {i \in DOMAIN logs : logs[i].by = "tryMerge"}

C13_FirstFailingCheckIsReported ==
    (TryMergeRan /\ ~Eligible(Info)) =>
        /\ Cardinality(SkipReasons) = 1
        /\ \A i \in SkipReasons :
             /\ Info.mergeableState # "MERGEABLE" =>
                    (logs[i].msg = "not in a mergeable state"
                        /\ logs[i].names = {Info.mergeableState})
             /\ (Info.mergeableState = "MERGEABLE" /\ Info.merged) =>
                    logs[i].msg = "already merged"
             /\ (Info.mergeableState = "MERGEABLE" /\ ~Info.merged) =>
                    (logs[i].msg = "not open" /\ logs[i].names = {Info.pullRequestState})

C13_Witness ==
    /\ TryMergeRan
    /\ Info.mergeableState = "MERGEABLE"
    /\ Info.merged
    /\ Info.pullRequestState = "MERGED"
    /\ logs[Len(logs)].msg = "already merged"

(***************************************************************************)
(* C15: the push handler parses the commit headline only after the read    *)
(* query has returned a pull request, and before tryMerge runs its checks: *)
(* it is never parsed when no pull request was found; and when the payload *)
(* has no first commit message to parse, the invocation ends with one      *)
(* error entry and no mutation, also for a pull request that would have    *)
(* been skipped or merged.                                                 *)
(***************************************************************************)
Position(name) == CHOOSE i \in DOMAIN calls : calls[i] = name
HeadlineParsed == "getCommitMessageHeadline" \in Range(calls)
NoFirstMessage == payload.commits = <<>> \/ payload.commits[1].message = None

C15_HeadlineParsedBetweenFetchAndChecks ==
    eventName = "push" =>
        /\ HeadlineParsed =>
               /\ Found
               /\ Position("getPullRequestInformation") < Position("getCommitMessageHeadline")
        /\ TryMergeRan =>
               /\ HeadlineParsed
               /\ Position("getCommitMessageHeadline") < Position("tryMerge")
        /\ (response # None /\ ~Found) => ~HeadlineParsed
        /\ (Found /\ NoFirstMessage) =>
               /\ HeadlineParsed
               /\ ~TryMergeRan
               /\ mutationCalls = <<>>
               /\ Entries("info", {"tryMerge"}) = {}
               /\ Cardinality(Entries("error", Invocation)) = 1
               /\ errors = <<[kind |-> "TypeError", from |-> "getCommitMessageHeadline"]>>
               /\ ~failed
               /\ pc = "done"

C15_Witness ==
    /\ PushByLogin
    /\ Found
    /\ Eligible(Info)
    /\ payload.commits = <<>>
    /\ HeadlineParsed
    /\ mutationCalls = <<>>
    /\ logs[Len(logs)].level = "error"
    /\ pc = "done"

(***************************************************************************)
(* Two runs racing for one pull request.  The first run is the run above,  *)
(* on a push by the configured login; its read query is answered with the  *)
(* provider's current pull request and its mutation with the provider's    *)
(* verdict.  The rival is a second push run for the same branch that has   *)
(* passed the login gate and issued its read query.  The provider accepts  *)
(* a merge only of a pull request that is mergeable, unmerged and open.    *)
(***************************************************************************)
RacePayload ==
    [pusher  |-> Some([name |-> GITHUB_LOGIN]),
     ref     |-> Some(RefPrefix \o <<"a">>),
     commits |-> <<[message |-> Some(<<"a", "\n">>)]>>]

RaceInit ==
    /\ eventName = "push"
    /\ payload = RacePayload
    /\ pc = "main"
    /\ calls = <<>>
    /\ fetchCalls = <<>>
    /\ response = None
    /\ pullRequestInformation = None
    /\ mutationCalls = <<>>
    /\ logs = <<>>
    /\ errors = <<>>
    /\ failed = FALSE
    /\ \E node \in PullRequestNodes : provider = [pr |-> Some(node), merges |-> 0]
    /\ verdict = None
    /\ rival = [NoRival EXCEPT !.pc = "awaitFetch"]

\* what a read query returns while the provider holds the pull request
ProviderRead == [kind |-> "data", nodes |-> provider.pr]

\* the provider's merge endpoint: it may accept a merge of a pull request that
\* is mergeable, unmerged and open, and the pull request is then merged
ProviderMerge(accepted) ==
    LET node == provider.pr[1]
    IN  /\ accepted =>
               (node.mergeable = "MERGEABLE" /\ ~node.merged /\ node.state = "OPEN")
        /\ provider' = IF accepted
                       THEN [pr |-> Some([node EXCEPT !.merged = TRUE, !.state = "MERGED"]),
                             merges |-> provider.merges + 1]
                       ELSE provider

\* the provider answers the first run's mutation
ProviderAnswers ==
    /\ pc = "awaitMutation"
    /\ verdict = None
    /\ \E accepted \in BOOLEAN :
         /\ ProviderMerge(accepted)
         /\ verdict' = Some(accepted)
    /\ UNCHANGED <<eventName, payload, pc, calls, fetchCalls, response,
                   pullRequestInformation, mutationCalls, logs, errors, failed, rival>>

\* the provider answers the rival's mutation
ProviderAnswersRival ==
    /\ rival.pc = "awaitMutation"
    /\ rival.verdict = None
    /\ \E accepted \in BOOLEAN :
         /\ ProviderMerge(accepted)
         /\ rival' = [rival EXCEPT !.verdict = Some(accepted)]
    /\ UNCHANGED <<eventName, payload, pc, calls, fetchCalls, response,
                   pullRequestInformation, mutationCalls, logs, errors, failed, verdict>>

\* the first run's read query returns the provider's pull request
RaceFetchReturn ==
    /\ response' = Some(ProviderRead)
    /\ FetchReturn

\* the first run's mutation settles as the provider answered it
RaceMutationReturn ==
    /\ verdict # None
    /\ MutationReturn
    /\ (errors' = errors) <=> verdict[1]

\* the rival's handler once its read query has settled (pushHandle lines 137-153)
RivalFetchReturn ==
    /\ rival.pc = "awaitFetch"
    /\ LET res == getPullRequestInformation(ProviderRead)
           info == res.value[1]
           found == LogEntry("info", "pushHandle", "found pull request information",
                             {info.mergeableState, info.pullRequestState,
                              info.pullRequestId})
           headline == getCommitMessageHeadline(payload)
           out == tryMerge(info, headline.value)
       IN  rival' =
             IF ~headline.ok
             THEN [rival EXCEPT !.info = Some(info),
                                !.logs = <<found, LogEntry("error", "pushHandle",
                                                           "TypeError", {})>>,
                                !.errors = <<[kind |-> "TypeError",
                                              from |-> "getCommitMessageHeadline"]>>,
                                !.pc = "done"]
             ELSE [rival EXCEPT !.info = Some(info),
                                !.logs = <<found>> \o out.log,
                                !.mutationCalls = out.mutation,
                                !.pc = IF out.mutation = None THEN "done"
                                       ELSE "awaitMutation"]
    /\ UNCHANGED <<eventName, payload, pc, calls, fetchCalls, response,
                   pullRequestInformation, mutationCalls, logs, errors, failed,
                   provider, verdict>>

\* the rival's mutation settles: tryMerge returns, or its rejection is caught
\* and logged (pushHandle lines 151-153)
RivalMutationReturn ==
    /\ rival.pc = "awaitMutation"
    /\ rival.verdict # None
    /\ rival' =
         IF rival.verdict[1]
         THEN [rival EXCEPT !.pc = "done"]
         ELSE [rival EXCEPT !.pc = "done",
                            !.errors = Append(@, [kind |-> "MutationError",
                                                  from |-> "tryMerge"]),
                            !.logs = Append(@, LogEntry("error", "pushHandle",
                                                        "MutationError", {}))]
    /\ UNCHANGED <<eventName, payload, pc, calls, fetchCalls, response,
                   pullRequestInformation, mutationCalls, logs, errors, failed,
                   provider, verdict>>

RaceNext ==
    \/ Main
    \/ PushHandleStart
    \/ RaceFetchReturn
    \/ RaceMutationReturn
    \/ RivalFetchReturn
    \/ RivalMutationReturn
    \/ ProviderAnswers
    \/ ProviderAnswersRival

RaceSpec == RaceInit /\ [][RaceNext]_vars

(***************************************************************************)
(* C14: when two runs handle events for the same pull request and both     *)
(* read it as MERGEABLE, unmerged and OPEN, both may issue a merge          *)
(* mutation; the provider accepts at most one, so the pull request is      *)
(* merged at most once, and the rejected mutation is a failure of its own  *)
(* run only, caught and logged by the handler without marking that run     *)
(* failed.                                                                 *)
(***************************************************************************)
ErrorEntries(entries) == {i \in DOMAIN entries : entries[i].level = "error"}
Rejection == <<[kind |-> "MutationError", from |-> "tryMerge"]>>

C14_RaceMergesAtMostOnce ==
    /\ provider.merges <= 1
    /\ (verdict # None /\ rival.verdict # None) => ~(verdict[1] /\ rival.verdict[1])
    /\ (verdict # None /\ pc # "awaitMutation") =>
           /\ pc = "done"
           /\ ~failed
           /\ IF verdict[1] THEN errors = <<>> /\ ErrorEntries(logs) = {}
              ELSE errors = Rejection /\ Cardinality(ErrorEntries(logs)) = 1
    /\ (rival.verdict # None /\ rival.pc # "awaitMutation") =>
           /\ rival.pc = "done"
           /\ ~rival.failed
           /\ IF rival.verdict[1] THEN rival.errors = <<>> /\ ErrorEntries(rival.logs) = {}
              ELSE rival.errors = Rejection /\ Cardinality(ErrorEntries(rival.logs)) = 1

C14_Witness ==
    /\ Len(mutationCalls) = 1
    /\ Len(rival.mutationCalls) = 1
    /\ pc = "done"
    /\ rival.pc = "done"
    /\ provider.merges = 1
    /\ rival.verdict = Some(TRUE)
    /\ verdict = Some(FALSE)
    /\ errors = Rejection
    /\ logs[Len(logs)].level = "error"
    /\ ~failed

====
